---- MODULE Spec2Model ----
(***************************************************************************)
(* caput: file metadata from a YAML header or a shadow (sidecar) file.     *)
(*                                                                         *)
(* Python objects live in a heap: a dict is an object with an identity,    *)
(* and a value stored under a key is a scalar, a list or a reference to a  *)
(* dict object.  One behaviour is one call of one public function: the     *)
(* caller builds the arguments, the function runs to its return (or to the *)
(* exception it raises), and the state keeps the heap as it was before the *)
(* call, the heap after it, the returned value and the file events of the  *)
(* call.                                                                   *)
(***************************************************************************)
EXTENDS Integers, Sequences, FiniteSets, TLC

VARIABLES
    fs,      \* the filesystem: path -> entry (absent, directory, file with bytes)
    heap,    \* the dict objects, by identity (index)
    pre,     \* the heap when the call was entered
    op,      \* the function called ("idle" before the call)
    args,    \* its arguments
    ret,     \* what it returned or raised
    events   \* file opens/closes and YAML loads of the call, in order

vars == <<fs, heap, pre, op, args, ret, events>>

----------------------------------------------------------------------------
(* Bounds *)

MaxScalar == 2      \* scalars stored under keys are 1..MaxScalar
MaxLines == 4       \* newline-terminated lines of a generated file

----------------------------------------------------------------------------
(* Python values *)

None == [t |-> "none"]
IntV(i) == [t |-> "int", i |-> i]
List(l) == [t |-> "list", l |-> l]
Ref(id) == [t |-> "ref", id |-> id]
Bool(b) == [t |-> "bool", b |-> b]
Str(s) == [t |-> "str", s |-> s]
Bytes(s) == [t |-> "bytes", s |-> s]
Dict(m) == [t |-> "dict", m |-> m]
PathVal(p) == [t |-> "path", p |-> p]

Returned(v) == [ok |-> TRUE, v |-> v]
Raised(e) == [ok |-> FALSE, exc |-> e]

EmptyDict == <<>>

\* isinstance(v, dict) / isinstance(v, Mapping): of the values of the data
\* model (scalars, lists, dicts) only a dict object is either.
IsDict(v) == v.t = "ref"
IsMapping(v) == v.t = "ref"

\* Python truthiness, as `x if x else y` uses it.
Truthy(h, v) ==
    CASE v.t = "none" -> FALSE
      [] v.t = "ref" -> DOMAIN h[v.id] # {}
      [] v.t = "str" -> Len(v.s) > 0
      [] v.t = "int" -> v.i # 0
      [] v.t = "list" -> Len(v.l) > 0
      [] OTHER -> TRUE

\* The keys of a dict, in iteration order.
RECURSIVE KeySeq(_)
KeySeq(S) ==
    IF S = {} THEN <<>>
    ELSE LET k == CHOOSE x \in S : TRUE IN <<k>> \o KeySeq(S \ {k})

\* d[key] = val on the dict object id.
SetItem(h, id, key, val) ==
    [h EXCEPT ![id] = [k \in DOMAIN h[id] \cup {key} |->
                         IF k = key THEN val ELSE h[id][k]]]

\* dict.copy(): a new object holding the same key -> value pairs (shallow).
\* The mutant keeps working on the object it was given.
dict_copy_alias(h, id) == [heap |-> h, id |-> id]
dict_copy(h, id) == [heap |-> Append(h, h[id]), id |-> Len(h) + 1]

\* {}: a new empty dict object.
new_dict(h) == [heap |-> Append(h, EmptyDict), id |-> Len(h) + 1]

----------------------------------------------------------------------------
(* merge_dicts *)

\* The branch test of the inner loop.
value_is_mapping_shallow(h, acc, b, key) == FALSE
value_is_mapping(h, acc, b, key) ==
    /\ key \in DOMAIN h[acc]
    /\ IsDict(h[acc][key])
    /\ IsMapping(h[b][key])

RECURSIVE merge_dicts(_, _, _)
RECURSIVE merge_keys(_, _, _, _)
RECURSIVE merge_others(_, _, _)

\* dict_a[key] = <the dict the recursive call returned>
store_merged(r, acc, key) == SetItem(r.heap, acc, key, r.ret.v)

\* for key in dict_b: ...   (acc is dict_a, b is dict_b; both object ids)
merge_keys(h, acc, b, keys) ==
    IF keys = <<>> THEN h
    ELSE IF value_is_mapping(h, acc, b, Head(keys))
    THEN merge_keys(store_merged(merge_dicts(h, h[acc][Head(keys)], <<h[b][Head(keys)]>>),
                                 acc, Head(keys)),
                    acc, b, Tail(keys))
    ELSE merge_keys(SetItem(h, acc, Head(keys), h[b][Head(keys)]), acc, b, Tail(keys))

\* for dict_b in others: ...   A str is iterated by character and indexing
\* it with a character raises TypeError.  The mutant stops after the first
\* override.
merge_others_first_only(h, acc, others) ==
    IF others = <<>> THEN [heap |-> h, ret |-> Returned(Ref(acc))]
    ELSE IF Head(others).t = "ref"
    THEN [heap |-> merge_keys(h, acc, Head(others).id, KeySeq(DOMAIN h[Head(others).id])),
          ret |-> Returned(Ref(acc))]
    ELSE IF Head(others).t = "str" /\ Len(Head(others).s) = 0
    THEN [heap |-> h, ret |-> Returned(Ref(acc))]
    ELSE [heap |-> h, ret |-> Raised("TypeError")]
merge_others(h, acc, others) ==
    IF others = <<>> THEN [heap |-> h, ret |-> Returned(Ref(acc))]
    ELSE IF Head(others).t = "ref"
    THEN merge_others(merge_keys(h, acc, Head(others).id,
                                 KeySeq(DOMAIN h[Head(others).id])),
                      acc, Tail(others))
    ELSE IF Head(others).t = "str" /\ Len(Head(others).s) = 0
    THEN merge_others(h, acc, Tail(others))
    ELSE [heap |-> h, ret |-> Raised("TypeError")]

\* The loops, run on the accumulator c.
merge_into(c, others) == merge_others(c.heap, c.id, others)

\* dict_a = dict_a.copy() if dict_a else {}, then the loops.
merge_dicts(h, dict_a, others) ==
    merge_into(IF Truthy(h, dict_a) THEN dict_copy(h, dict_a.id) ELSE new_dict(h), others)

----------------------------------------------------------------------------
(* The value a heap value denotes (Python ==): dicts by content. *)

RECURSIVE Deref(_, _)
Deref(h, v) ==
    IF v.t = "ref"
    THEN Dict([k \in DOMAIN h[v.id] |-> Deref(h, h[v.id][k])])
    ELSE v

\* Building an argument: allocate the dict m (nested dicts first).
RECURSIVE Alloc(_, _)
RECURSIVE AllocKeys(_, _, _, _)
StoreRef(r, id, key) == SetItem(r.heap, id, key, Ref(r.id))
AllocKeys(h, id, m, keys) ==
    IF keys = <<>> THEN h
    ELSE IF m[Head(keys)].t = "dict"
    THEN AllocKeys(StoreRef(Alloc(h, m[Head(keys)].m), id, Head(keys)), id, m, Tail(keys))
    ELSE AllocKeys(SetItem(h, id, Head(keys), m[Head(keys)]), id, m, Tail(keys))
AllocInto(n, m) == [heap |-> AllocKeys(n.heap, n.id, m, KeySeq(DOMAIN m)), id |-> n.id]
Alloc(h, m) == AllocInto(new_dict(h), m)

----------------------------------------------------------------------------
(* Bytes, text and lines.  Bytes and text are sequences of one-character   *)
(* strings; every generated file holds bytes that decode in the encoding.  *)

DashLine == <<"-", "-", "-", "\n">>
DotsLine == <<".", ".", ".", "\n">>
KVLine == <<"f", "o", "o", ":", " ", "1", "\n">>
DashCRLF == <<"-", "-", "-", "\r", "\n">>
DashTail == <<"-", "-", "-">>
ShortTail == <<"-", "-">>

Min(a, b) == IF a < b THEN a ELSE b

\* Text mode (newline=None): "\r\n" and a lone "\r" are read as "\n".
RECURSIVE TextOf(_)
TextOf(b) ==
    IF b = <<>> THEN <<>>
    ELSE IF Head(b) = "\r"
    THEN IF Len(b) >= 2 /\ b[2] = "\n"
         THEN <<"\n">> \o TextOf(SubSeq(b, 3, Len(b)))
         ELSE <<"\n">> \o TextOf(Tail(b))
    ELSE <<Head(b)>> \o TextOf(Tail(b))

\* Iterating a text file: the lines, each with its "\n"; the last line has
\* none when the text does not end in one.
RECURSIVE LinesFrom(_, _)
LinesFrom(text, cur) ==
    IF text = <<>> THEN IF cur = <<>> THEN <<>> ELSE <<cur>>
    ELSE IF Head(text) = "\n"
    THEN <<Append(cur, "\n")>> \o LinesFrom(Tail(text), <<>>)
    ELSE LinesFrom(Tail(text), Append(cur, Head(text)))
Lines(text) == LinesFrom(text, <<>>)

\* ''.join(lines)
RECURSIVE Join(_)
Join(ls) == IF ls = <<>> THEN <<>> ELSE Head(ls) \o Join(Tail(ls))

\* str.startswith
StartsWith(s, prefix) ==
    /\ Len(s) >= Len(prefix)
    /\ SubSeq(s, 1, Len(prefix)) = prefix

\* fn.none_fn(startswith '---\n', startswith '...\n'): the line closes no header.
not_closing(line) ==
    /\ ~StartsWith(line, DashLine)
    /\ ~StartsWith(line, DotsLine)

\* funcy: rest, and takewhile / dropwhile with the predicate not_closing.
rest(ls) == IF ls = <<>> THEN <<>> ELSE Tail(ls)
RECURSIVE takewhile_not_closing(_)
takewhile_not_closing(ls) ==
    IF ls = <<>> \/ ~not_closing(Head(ls)) THEN <<>>
    ELSE <<Head(ls)>> \o takewhile_not_closing(Tail(ls))
RECURSIVE dropwhile_not_closing(_)
dropwhile_not_closing(ls) ==
    IF ls = <<>> \/ ~not_closing(Head(ls)) THEN ls
    ELSE dropwhile_not_closing(Tail(ls))

----------------------------------------------------------------------------
(* Paths and the filesystem *)

Path(stem, ext) == [parent |-> "tmp", stem |-> stem, ext |-> ext]

Absent == [k |-> "absent"]
Dir == [k |-> "dir"]
File(b) == [k |-> "file", b |-> b]

\* Path.is_file(), Path.exists()
is_file(f, p) == f[p].k = "file"
exists(f, p) == f[p].k # "absent"

\* What open() raises on a path that is no regular file.
open_error(f, p) ==
    IF f[p].k = "absent" THEN "FileNotFoundError" ELSE "IsADirectoryError"

OpenEv(p, mode) == [e |-> "open", p |-> p, mode |-> mode]
CloseEv(p) == [e |-> "close", p |-> p]
LoadEv(text) == [e |-> "load", text |-> text]

\* with filepath.open(...) as fi: the handle is released when the block is
\* left.  The mutant never releases it.
leaked_open(p, mode) == <<OpenEv(p, mode)>>
scoped_open(p, mode) == <<OpenEv(p, mode), CloseEv(p)>>

----------------------------------------------------------------------------
(* has_config_header, has_shadow_config, get_shadow_config_name *)

\* fi.read(3) == b'---'   (the mutant reads the whole file)
read_all_is_marker(b) == b = DashTail
read3_is_marker(b) == SubSeq(b, 1, Min(3, Len(b))) = DashTail

has_config_header(f, p) ==
    IF is_file(f, p)
    THEN [ret |-> Returned(Bool(read3_is_marker(f[p].b))), ev |-> scoped_open(p, "rb")]
    ELSE [ret |-> Returned(Bool(FALSE)), ev |-> <<>>]

get_shadow_config_name(p, extension) ==
    [parent |-> p.parent, stem |-> p.stem, ext |-> extension]

has_shadow_config(f, p, extension) ==
    exists(f, get_shadow_config_name(p, extension))

----------------------------------------------------------------------------
(* parse_config *)

Strip(line) ==
    IF line # <<>> /\ line[Len(line)] = "\n" THEN SubSeq(line, 1, Len(line) - 1)
    ELSE line
StripAll(ls) == [i \in 1..Len(ls) |-> Strip(ls[i])]

NestedLine == <<"f", "o", "o", ":", " ", "{", "f", "o", "o", ":", " ", "1", "}", "\n">>

\* The block-mapping lines the loader is modelled on: line -> (key, value).
IsEntry(c) == c \in {Strip(KVLine), Strip(NestedLine)}
EntryKey(c) == "foo"
EntryVal(c) == IF c = Strip(KVLine) THEN IntV(1) ELSE Dict([foo |-> IntV(1)])

\* A leading "---" line and a trailing "..." line delimit the document.
DropDocStart(cs) == IF cs # <<>> /\ cs[1] = DashTail THEN Tail(cs) ELSE cs
DropDocEnd(cs) ==
    IF cs # <<>> /\ cs[Len(cs)] = <<".", ".", ".">> THEN SubSeq(cs, 1, Len(cs) - 1)
    ELSE cs

LoadedDict(a) == [heap |-> a.heap, ret |-> Returned(Ref(a.id))]

\* The document body: no line gives None; one mapping line a new dict; a lone
\* plain scalar a str; a repeated key, a second document or a mapping mixed
\* with anything else is an error.
load_body(h, body) ==
    IF body = <<>> THEN [heap |-> h, ret |-> Returned(None)]
    ELSE IF Len(body) = 1 /\ IsEntry(body[1])
    THEN LoadedDict(Alloc(h, (EntryKey(body[1]) :> EntryVal(body[1]))))
    ELSE IF Len(body) = 1 /\ body[1] = ShortTail
    THEN [heap |-> h, ret |-> Returned(Str(body[1]))]
    ELSE [heap |-> h, ret |-> Raised("YAMLError")]

\* YAML(typ='safe', pure=True).load(text), on the texts of this model.
yaml_load(h, text) == load_body(h, DropDocEnd(DropDocStart(StripAll(Lines(text)))))

WithEvents(r, ev) == [heap |-> r.heap, ret |-> r.ret, ev |-> ev]
AfterEvents(ev, r) == [heap |-> r.heap, ret |-> r.ret, ev |-> ev \o r.ev]
NewEmpty(e) == [heap |-> e.heap, v |-> Ref(e.id)]

\* config = yaml.load(text) or {}
or_empty(ld) ==
    IF Truthy(ld.heap, ld.ret.v) THEN [heap |-> ld.heap, v |-> ld.ret.v]
    ELSE NewEmpty(new_dict(ld.heap))

\* return merge_dicts(defaults, config) if defaults else config
merge_config(h, text, defaults, config) ==
    IF Truthy(h, defaults)
    THEN WithEvents(merge_dicts(config.heap, defaults, <<config.v>>), <<LoadEv(text)>>)
    ELSE [heap |-> config.heap, ret |-> Returned(config.v), ev |-> <<LoadEv(text)>>]

parse_loaded(h, text, defaults, ld) ==
    IF ~ld.ret.ok THEN [heap |-> h, ret |-> ld.ret, ev |-> <<LoadEv(text)>>]
    ELSE merge_config(h, text, defaults, or_empty(ld))

parse_config(h, text, defaults) == parse_loaded(h, text, defaults, yaml_load(h, text))

----------------------------------------------------------------------------
(* read_config_header, read_contents, read_config *)

\* defaults.copy() if defaults else {}   (the mutant: defaults or {})
defaults_or_empty(h, defaults) ==
    IF Truthy(h, defaults) THEN [heap |-> h, id |-> defaults.id] ELSE new_dict(h)
defaults_copy(h, defaults) ==
    IF Truthy(h, defaults) THEN dict_copy(h, defaults.id) ELSE new_dict(h)

ReturnedDict(c, ev) == [heap |-> c.heap, ret |-> Returned(Ref(c.id)), ev |-> ev]

\* ''.join(takewhile(none_fn(...), rest(fi)))   (the mutant drops rest)
header_text_no_rest(ls) == Join(takewhile_not_closing(ls))
header_text(ls) == Join(takewhile_not_closing(rest(ls)))

\* ''.join(rest(dropwhile(none_fn(...), rest(fi))))   (the mutant drops the outer rest)
content_text_keep_closing(ls) == Join(dropwhile_not_closing(rest(ls)))
content_text(ls) == Join(rest(dropwhile_not_closing(rest(ls))))

\* read_config_header after its call of has_config_header (hd).
header_or_defaults(f, h, p, defaults, hd) ==
    IF ~hd.ret.v.b
    THEN ReturnedDict(defaults_copy(h, defaults), hd.ev)
    ELSE AfterEvents(hd.ev \o scoped_open(p, "r"),
                     parse_config(h, header_text(Lines(TextOf(f[p].b))), defaults))

read_config_header(f, h, p, defaults) ==
    header_or_defaults(f, h, p, defaults, has_config_header(f, p))

\* filepath.open(...) on a path that is no regular file raises.  The mutant
\* returns nothing instead.
open_swallowed(f, p, ev) == [ret |-> Returned(Str(<<>>)), ev |-> ev]
open_failed(f, p, ev) == [ret |-> Raised(open_error(f, p)), ev |-> ev]

\* read_contents after its call of has_config_header (hd); encoding is
\* "utf-8" or "None".
contents_after(f, p, encoding, hd) ==
    IF ~hd.ret.v.b
    THEN IF ~is_file(f, p)
         THEN open_failed(f, p, hd.ev)
         ELSE IF encoding = "None"
         THEN [ret |-> Returned(Bytes(f[p].b)), ev |-> hd.ev \o scoped_open(p, "rb")]
         ELSE [ret |-> Returned(Str(TextOf(f[p].b))), ev |-> hd.ev \o scoped_open(p, "r")]
    ELSE [ret |-> Returned(Str(content_text(Lines(TextOf(f[p].b))))),
          ev |-> hd.ev \o scoped_open(p, "r")]

read_contents(f, p, encoding) == contents_after(f, p, encoding, has_config_header(f, p))

\* parse_config(get_shadow_config_name(filepath).read_text(encoding), defaults)
read_shadow_at(f, h, sh, defaults) ==
    IF ~is_file(f, sh)
    THEN [heap |-> h, ret |-> Raised(open_error(f, sh)), ev |-> <<>>]
    ELSE AfterEvents(scoped_open(sh, "r"), parse_config(h, TextOf(f[sh].b), defaults))
read_shadow(f, h, p, defaults) ==
    read_shadow_at(f, h, get_shadow_config_name(p, "yml"), defaults)

\* The mutant looks for a header first.
read_config_header_first(f, h, p, defaults) ==
    IF has_config_header(f, p).ret.v.b \/ ~has_shadow_config(f, p, "yml")
    THEN read_config_header(f, h, p, defaults)
    ELSE read_shadow(f, h, p, defaults)
read_config(f, h, p, defaults) ==
    IF has_shadow_config(f, p, "yml")
    THEN read_shadow(f, h, p, defaults)
    ELSE read_config_header(f, h, p, defaults)

----------------------------------------------------------------------------
(* Inputs *)

Keys == {"foo", "bar"}
Leaves == {IntV(i) : i \in 1..MaxScalar} \cup {List(<<i>>) : i \in 1..MaxScalar}
MapsOver(K, V) == UNION {[S -> V] : S \in SUBSET K}
Inner == MapsOver({"foo"}, Leaves)
Values == Leaves \cup {Dict(m) : m \in Inner}
Outer == MapsOver(Keys, Values)
\* The arguments of a three-way merge: two keys at both levels.
Triple == MapsOver(Keys, {IntV(1)} \cup {Dict(m) : m \in MapsOver(Keys, {IntV(1)})})

\* The defaults a caller passes: None or one of these dicts.
DefaultMaps ==
    { <<>>,
      [foo |-> Dict([bar |-> IntV(1)])],
      [bar |-> IntV(1)] }

Paths == {Path("foo", "html"), Path("foo", "yml")}
Extensions == {"yml", "html"}
Encodings == {"utf-8", "None"}

LineAlphabet == {DashLine, DotsLine, KVLine, DashCRLF}
Tails == {<<>>, DashTail, ShortTail}
Contents ==
    {Join(ls) \o t : ls \in UNION {[1..n -> LineAlphabet] : n \in 0..MaxLines},
                     t \in Tails}
ShadowContents ==
    { <<>>, KVLine, KVLine \o KVLine, NestedLine,
      DashLine \o KVLine \o DashLine \o KVLine }

Filesystems ==
    {[p \in Paths |-> IF p.ext = "yml" THEN s ELSE e] :
        e \in {Absent, Dir} \cup {File(c) : c \in Contents},
        s \in {Absent, Dir} \cup {File(c) : c \in ShadowContents}}

\* The caller's defaults argument, built on an empty heap.
AsArg(a) == [heap |-> a.heap, v |-> Ref(a.id)]
DefaultsArgs ==
    {[heap |-> <<>>, v |-> None]} \cup {AsArg(Alloc(<<>>, m)) : m \in DefaultMaps}

----------------------------------------------------------------------------
(* Calls: one call of one public function per behaviour *)

Idle == op = "idle"

Init ==
    /\ fs \in Filesystems
    /\ heap = <<>>
    /\ pre = <<>>
    /\ op = "idle"
    /\ args = <<>>
    /\ ret = Returned(None)
    /\ events = <<>>

CallHasConfigHeader ==
    /\ Idle
    /\ \E p \in Paths :
        \E r \in {has_config_header(fs, p)} :
            /\ op' = "has_config_header"
            /\ args' = <<PathVal(p)>>
            /\ ret' = r.ret
            /\ events' = r.ev
    /\ UNCHANGED <<fs, heap, pre>>

CallHasShadowConfig ==
    /\ Idle
    /\ \E p \in Paths, x \in Extensions :
        /\ op' = "has_shadow_config"
        /\ args' = <<PathVal(p), x>>
        /\ ret' = Returned(Bool(has_shadow_config(fs, p, x)))
        /\ events' = <<>>
    /\ UNCHANGED <<fs, heap, pre>>

CallReadContents ==
    /\ Idle
    /\ \E p \in Paths, enc \in Encodings :
        \E r \in {read_contents(fs, p, enc)} :
            /\ op' = "read_contents"
            /\ args' = <<PathVal(p), enc>>
            /\ ret' = r.ret
            /\ events' = r.ev
    /\ UNCHANGED <<fs, heap, pre>>

CallReadConfigHeader ==
    /\ Idle
    /\ \E p \in Paths, d \in DefaultsArgs :
        \E r \in {read_config_header(fs, d.heap, p, d.v)} :
            /\ op' = "read_config_header"
            /\ args' = <<PathVal(p), d.v>>
            /\ pre' = d.heap
            /\ heap' = r.heap
            /\ ret' = r.ret
            /\ events' = r.ev
    /\ UNCHANGED fs

CallReadConfig ==
    /\ Idle
    /\ \E p \in Paths, d \in DefaultsArgs :
        \E r \in {read_config(fs, d.heap, p, d.v)} :
            /\ op' = "read_config"
            /\ args' = <<PathVal(p), d.v>>
            /\ pre' = d.heap
            /\ heap' = r.heap
            /\ ret' = r.ret
            /\ events' = r.ev
    /\ UNCHANGED fs

Next ==
    \/ CallHasConfigHeader
    \/ CallHasShadowConfig
    \/ CallReadContents
    \/ CallReadConfigHeader
    \/ CallReadConfig

Spec == Init /\ [][Next]_vars

----------------------------------------------------------------------------
(* merge_dicts called on its own *)

NoFiles == [p \in Paths |-> Absent]

\* The caller's arguments: (base, override) with base a dict or None and
\* possibly one object passed as both, or (base, B, C).
ArgsSame(a) == [heap |-> a.heap, args |-> <<Ref(a.id), Ref(a.id)>>]
AppendArg(x, b) == [heap |-> b.heap, args |-> Append(x.args, Ref(b.id))]
Then(x, B) == AppendArg(x, Alloc(x.heap, B))
First(a) == [heap |-> a.heap, args |-> <<Ref(a.id)>>]
NoBase == [heap |-> <<>>, args |-> <<None>>]

MergeArgs2 ==
    {Then(First(Alloc(<<>>, A)), B) : A \in Outer, B \in Outer}
    \cup {ArgsSame(Alloc(<<>>, A)) : A \in Outer}
    \cup {Then(NoBase, B) : B \in Outer}

MergeArgs3 ==
    {Then(Then(First(Alloc(<<>>, A)), B), C) : A \in Triple, B \in Triple, C \in Triple}
    \cup {Then(Then(NoBase, B), C) : B \in Triple, C \in Triple}

InitMerge ==
    /\ fs = NoFiles
    /\ \E a \in MergeArgs2 \cup MergeArgs3 :
        /\ heap = a.heap
        /\ pre = a.heap
        /\ args = a.args
    /\ op = "idle"
    /\ ret = Returned(None)
    /\ events = <<>>

\* merge_dicts(base, override)
CallMerge2 ==
    /\ Idle
    /\ Len(args) = 2
    /\ \E r \in {merge_dicts(heap, args[1], <<args[2]>>)} :
          /\ heap' = r.heap
          /\ ret' = r.ret
    /\ op' = "merge_dicts"
    /\ UNCHANGED <<fs, pre, args, events>>

\* merge_dicts(A, B, C), then merge_dicts(merge_dicts(A, B), C) on the same
\* arguments; ret is the pair of results.
CallMerge3 ==
    /\ Idle
    /\ Len(args) = 3
    /\ \E r3 \in {merge_dicts(heap, args[1], <<args[2], args[3]>>)} :
       \E r1 \in {merge_dicts(r3.heap, args[1], <<args[2]>>)} :
       \E r2 \in {merge_dicts(r1.heap, r1.ret.v, <<args[3]>>)} :
          /\ heap' = r2.heap
          /\ ret' = Returned(List(<<r3.ret.v, r2.ret.v>>))
    /\ op' = "merge_dicts3"
    /\ UNCHANGED <<fs, pre, args, events>>

NextMerge == CallMerge2 \/ CallMerge3

SpecMerge == InitMerge /\ [][NextMerge]_vars

----------------------------------------------------------------------------
(* What the claims speak of *)

ArgPath == args[1].p
Entry == fs[ArgPath]
ShadowPath == get_shadow_config_name(ArgPath, "yml")
Defaults == args[2]

Opens == SelectSeq(events, LAMBDA e : e.e = "open")
Loads == SelectSeq(events, LAMBDA e : e.e = "load")

\* The entry is a regular file whose first three bytes are "---".
HasHeader(e) ==
    /\ e.k = "file"
    /\ Len(e.b) >= 3
    /\ e.b[1] = "-" /\ e.b[2] = "-" /\ e.b[3] = "-"

\* A closing delimiter line: "---" or "..." followed by a newline.
IsDelimiter(line) == line \in {DashLine, DotsLine}

\* The index of the first closing delimiter line after the first line, or
\* one past the last line when there is none.
ClosingIndex(L) ==
    IF \E i \in 2..Len(L) : IsDelimiter(L[i])
    THEN CHOOSE i \in 2..Len(L) :
            IsDelimiter(L[i]) /\ \A j \in 2..(i - 1) : ~IsDelimiter(L[j])
    ELSE Len(L) + 1

TextLines == Lines(TextOf(Entry.b))

\* The deep merge with override-wins semantics, on dicts as values.
RECURSIVE DeepMerge(_, _)
DeepMerge(a, b) ==
    [k \in DOMAIN a \cup DOMAIN b |->
        IF k \notin DOMAIN b THEN a[k]
        ELSE IF k \notin DOMAIN a THEN b[k]
        ELSE IF a[k].t = "dict" /\ b[k].t = "dict"
        THEN Dict(DeepMerge(a[k].m, b[k].m))
        ELSE b[k]]

\* An argument as a value: None counts as the empty dict.
ArgMap(v) == IF v.t = "ref" THEN Deref(pre, v).m ELSE <<>>

\* No object the caller held when the call was entered has changed.
InputsUnchanged ==
    /\ Len(heap) >= Len(pre)
    /\ \A id \in 1..Len(pre) : heap[id] = pre[id]

IsNew(v) == v.t = "ref" /\ v.id \notin 1..Len(pre)

\* The most file handles open at once during the call.
RECURSIVE OpenAfter(_)
OpenAfter(ev) ==
    IF ev = <<>> THEN 0
    ELSE LET e == ev[Len(ev)]
             n == OpenAfter(SubSeq(ev, 1, Len(ev) - 1))
         IN IF e.e = "open" THEN n + 1 ELSE IF e.e = "close" THEN n - 1 ELSE n

----------------------------------------------------------------------------
(* Claims *)

\* C1: read_config gives a shadow file priority over an embedded header:
\* whenever the shadow path exists, the call opens nothing but the shadow
\* path, in text mode, hands the parser the shadow file's text and nothing
\* else, and returns (or raises) what parse_config gives for that text and
\* the defaults; header detection runs only when no shadow file exists.
C1_ShadowPriority ==
    op = "read_config" =>
        /\ exists(fs, ShadowPath) =>
            /\ \A i \in 1..Len(events) :
                  events[i].e = "open" =>
                      events[i].p = ShadowPath /\ events[i].mode = "r"
            /\ is_file(fs, ShadowPath) =>
                LET text == TextOf(fs[ShadowPath].b)
                    want == parse_config(pre, text, Defaults)
                IN /\ Loads = <<LoadEv(text)>>
                   /\ ret.ok = want.ret.ok
                   /\ ret.ok => Deref(heap, ret.v) = Deref(want.heap, want.ret.v)
                   /\ ~ret.ok => ret = want.ret
        /\ (\E i \in 1..Len(events) : events[i].e = "open" /\ events[i].mode = "rb")
              => ~exists(fs, ShadowPath)

\* C1 witness: a header-bearing primary file with a shadow file beside it,
\* read with non-empty defaults.
C1_Witness ==
    /\ op = "read_config"
    /\ ArgPath = Path("foo", "html")
    /\ HasHeader(Entry)
    /\ is_file(fs, ShadowPath)
    /\ fs[ShadowPath].b = KVLine
    /\ Defaults.t = "ref"
    /\ ret.ok
    /\ Deref(heap, ret.v) = Dict([foo |-> IntV(1), bar |-> IntV(1)])

\* C2: merge_dicts never mutates its inputs: after the call every object
\* that existed before it (base, every override, every dict nested in them)
\* holds what it held, and each returned dict is a new object.
C2_NoMutation ==
    /\ op = "merge_dicts" => InputsUnchanged /\ IsNew(ret.v)
    /\ op = "merge_dicts3" =>
          InputsUnchanged /\ IsNew(ret.v.l[1]) /\ IsNew(ret.v.l[2])

\* C2 witness: a merge that recursed into a nested dict and produced a value
\* different from base.
C2_Witness ==
    /\ op = "merge_dicts"
    /\ args[1].t = "ref"
    /\ \E k \in DOMAIN pre[args[1].id] \cap DOMAIN pre[args[2].id] :
          /\ pre[args[1].id][k].t = "ref"
          /\ pre[args[2].id][k].t = "ref"
          /\ Deref(pre, pre[args[1].id][k]) # Deref(heap, heap[ret.v.id][k])
    /\ Deref(heap, ret.v) # Deref(pre, args[1])

\* C3: merge_dicts(base, override) is the deep merge with override-wins
\* semantics: the union of the keys; a key of one side keeps that side's
\* value; a key of both is merged recursively when both values are dicts
\* and takes override's value otherwise.
C3_DeepMerge ==
    op = "merge_dicts" =>
        /\ ret.ok
        /\ Deref(heap, ret.v) = Dict(DeepMerge(ArgMap(args[1]), ArgMap(args[2])))

\* C3 witness: one key holds different dicts on both sides (merged), the
\* other holds different lists on both sides (replaced).
C3_Witness ==
    /\ op = "merge_dicts"
    /\ args[1].t = "ref"
    /\ LET a == ArgMap(args[1])
           b == ArgMap(args[2])
       IN /\ DOMAIN a = Keys /\ DOMAIN b = Keys
          /\ a["foo"].t = "dict" /\ b["foo"].t = "dict"
          /\ a["foo"].m # <<>> /\ b["foo"].m = <<>>
          /\ a["bar"].t = "list" /\ b["bar"].t = "list" /\ a["bar"] # b["bar"]

\* C4: has_config_header returns true iff the path is a regular file whose
\* first 3 bytes are "---"; otherwise (absent, directory, shorter file) it
\* returns false, and it never raises.
C4_HeaderDetection ==
    op = "has_config_header" => ret = Returned(Bool(HasHeader(Entry)))

\* C4 witness: true for a file that goes on after its third byte.
C4_Witness ==
    /\ op = "has_config_header"
    /\ ret = Returned(Bool(TRUE))
    /\ Len(Entry.b) > 4
    /\ Entry.b[4] # "\n"

NoFileNoShadow == op # "idle" /\ ~exists(fs, ArgPath) /\ ~exists(fs, ShadowPath)

\* C5 (as claimed): on a path that does not exist and has no shadow file,
\* has_config_header returns false and read_config, read_config_header and
\* read_contents each raise.
C5_AsClaimed ==
    NoFileNoShadow =>
        /\ op = "has_config_header" => ret = Returned(Bool(FALSE))
        /\ op \in {"read_config", "read_config_header", "read_contents"} => ~ret.ok

\* C5 (amended): on such a path has_config_header returns false and
\* read_contents raises FileNotFoundError, while read_config and
\* read_config_header return a new dict equal to defaults (empty without).
C5_MissingFile ==
    NoFileNoShadow =>
        /\ op = "has_config_header" => ret = Returned(Bool(FALSE))
        /\ op = "read_contents" => ret = Raised("FileNotFoundError")
        /\ op \in {"read_config", "read_config_header"} =>
              /\ ret.ok
              /\ Deref(heap, ret.v) = Dict(ArgMap(Defaults))

\* C5 witness: read_config on a missing path returned the defaults.
C5_Witness ==
    /\ op = "read_config"
    /\ NoFileNoShadow
    /\ Defaults.t = "ref"
    /\ ret.ok
    /\ Deref(heap, ret.v) = Dict([bar |-> IntV(1)])

NoHeaderNoShadow ==
    /\ Entry.k = "file"
    /\ ~HasHeader(Entry)
    /\ ~exists(fs, ShadowPath)

\* C6: for a file with no shadow file and no header, read_config and
\* read_config_header parse no YAML and return a new dict equal to defaults
\* (empty when defaults is None), leaving defaults as it was.
C6_DefaultsCopy ==
    (op \in {"read_config", "read_config_header"} /\ NoHeaderNoShadow) =>
        /\ Loads = <<>>
        /\ ret.ok
        /\ IsNew(ret.v)
        /\ Deref(heap, ret.v) = Dict(ArgMap(Defaults))
        /\ InputsUnchanged

\* C6 witness: a headerless file read with nested defaults.
C6_Witness ==
    /\ op = "read_config"
    /\ NoHeaderNoShadow
    /\ Entry.b # <<>>
    /\ Defaults.t = "ref"
    /\ Deref(heap, ret.v) = Dict([foo |-> Dict([bar |-> IntV(1)])])

\* C7: for a header-bearing file the text read_config_header hands to the
\* YAML parser is the concatenation of the lines after the first line and
\* before the first later line that is "---" or "..." with its newline.
C7_HeaderText ==
    (op = "read_config_header" /\ HasHeader(Entry)) =>
        Loads = <<LoadEv(Join(SubSeq(TextLines, 2, ClosingIndex(TextLines) - 1)))>>

\* C7 witness: a non-empty header, closed, with a delimiter-looking line
\* after the closing one.
C7_Witness ==
    /\ op = "read_config_header"
    /\ HasHeader(Entry)
    /\ ClosingIndex(TextLines) > 2
    /\ \E j \in (ClosingIndex(TextLines) + 1)..Len(TextLines) : IsDelimiter(TextLines[j])

C9_Composition ==
    op = "merge_dicts3" => Deref(heap, ret.v.l[1]) = Deref(heap, ret.v.l[2])

\* C9 witness: three arguments that each contribute to a nested result.
C9_Witness ==
    /\ op = "merge_dicts3"
    /\ Deref(heap, ret.v.l[1]) =
          Dict([foo |-> Dict([foo |-> IntV(1), bar |-> IntV(1)]), bar |-> IntV(1)])
    /\ ArgMap(args[1]) = [foo |-> Dict([foo |-> IntV(1)])]
    /\ ArgMap(args[2]) = [foo |-> Dict([bar |-> IntV(1)])]
    /\ ArgMap(args[3]) = [bar |-> IntV(1)]

\* C10 (as claimed): no call opens more than one file handle.
C10_AsClaimed == Len(Opens) <= 1

\* C10 (amended): a call opens at most two file handles, never two at once,
\* and has released them all when it returns; has_config_header and
\* read_config on a path with a shadow file open at most one, and
\* has_shadow_config none.
C10_FileOpens ==
    /\ Len(Opens) <= 2
    /\ \A n \in 0..Len(events) : OpenAfter(SubSeq(events, 1, n)) <= 1
    /\ OpenAfter(events) = 0
    /\ op = "has_config_header" => Len(Opens) <= 1
    /\ op = "has_shadow_config" => Len(Opens) = 0
    /\ (op = "read_config" /\ exists(fs, ShadowPath)) => Len(Opens) <= 1

\* C10 witness: read_config_header on a header-bearing file opened it twice.
C10_Witness ==
    /\ op = "read_config_header"
    /\ HasHeader(Entry)
    /\ Len(Opens) = 2

====
